---- MODULE Spec2Model ----
(***************************************************************************)
(* Model of MonacoCompletionProvider                                       *)
(* (src/components/CodeiumEditor/CompletionProvider.ts).                   *)
(*                                                                         *)
(* JavaScript is single threaded: the code between two suspension points   *)
(* runs without interleaving.  provideInlineCompletions has exactly one    *)
(* suspension point, the await of client.getCompletions (line 139), so one *)
(* invocation is two atomic steps: Invoke (lines 106-155) and Resume       *)
(* (lines 156-192).  Between them the environment acts: the transport      *)
(* settles the call, the caller cancels a token, invokes the provider      *)
(* again or replaces otherDocuments.  trace[s] records, in program order,  *)
(* what invocation s did and what happened to it.                          *)
(*                                                                         *)
(* Spec is the provider with two invocation slots.  OffsetSpec applies the *)
(* offset translation of getDocumentInfo and createInlineCompletionItem to *)
(* every short text.  ProviderSpec adds acceptedLastCompletion and the     *)
(* identity of the provider beside one invocation slot.  LiveSpec is one   *)
(* invocation slot under a transport that settles every call.              *)
(***************************************************************************)
EXTENDS Integers, Sequences, FiniteSets, TLC

VARIABLES
    otherDocuments, \* MonacoCompletionProvider.otherDocuments
    status,         \* last value passed to setStatus
    message,        \* last value passed to setMessage
    editorModel,    \* the editor model: text (UTF-16 code units) and language id
    pc,             \* pc[s]: position of invocation s
    token,          \* token[s]: the CancellationToken of invocation s
    signal,         \* signal[s]: abortController.signal of invocation s
    call,           \* call[s]: the getCompletions call of invocation s
    result,         \* result[s]: what the promise of invocation s resolved to
    trace,          \* trace[s]: the events of invocation s, in order
    probe,          \* the last direct application of getDocumentInfo and of
                    \* createInlineCompletionItem to the editor model
    sessionId,      \* MonacoCompletionProvider.sessionId
    apiKey,         \* MonacoCompletionProvider.apiKey
    accepts         \* the invocations of acceptedLastCompletion and their calls

vars == <<otherDocuments, status, message, editorModel, pc, token, signal,
          call, result, trace, probe, sessionId, apiKey, accepts>>

\* What the steps of provideInlineCompletions leave alone.
others == <<probe, sessionId, apiKey, accepts>>

-----------------------------------------------------------------------------
(* Bounds *)

MaxItems == 2       \* completion items in one response
MaxDocs == 11       \* entries the caller puts in otherDocuments
MaxLen == 3         \* code units of a text the offset functions are tried on
MaxOffset == 4      \* byte offsets the service puts in a range
MaxAccepts == 2     \* invocations of acceptedLastCompletion

(* Program constants *)

MaxOtherDocs == 10

\* Two invocation slots: up to two invocations are in flight at once, and a
\* slot whose invocation has returned is taken by a later invocation.
Sessions == {1, 2}

IDLE == "IDLE"
PROCESSING == "PROCESSING"
SUCCESS == "SUCCESS"
ERROR == "ERROR"

GeneratingMessage == "Generating completions..."
ErrorMessage == "Something went wrong; please try again."
NoCompletionsMessage == " No completions were generated"

-----------------------------------------------------------------------------
(* Offset translation (utils/utf) and the Document view *)

IsHighSurrogate(u) == u >= 55296 /\ u <= 56319
IsLowSurrogate(u) == u >= 56320 /\ u <= 57343

\* Code units of the code point that starts at index i (for..of over a string).
CodePointLength(text, i) ==
    IF /\ IsHighSurrogate(text[i])
       /\ i < Len(text)
       /\ IsLowSurrogate(text[i + 1])
    THEN 2 ELSE 1

\* UTF-8 bytes of the code point that starts at index i.
numUtf8BytesForCodePoint(text, i) ==
    IF CodePointLength(text, i) = 2 THEN 4
    ELSE IF text[i] < 128 THEN 1
    ELSE IF text[i] < 2048 THEN 2
    ELSE 3

RECURSIVE ScanToCodeUnits(_, _, _, _, _)
ScanToCodeUnits(text, numCodeUnits, i, curUnits, curBytes) ==
    IF i > Len(text) THEN curBytes
    ELSE LET units == curUnits + CodePointLength(text, i)
             bytes == curBytes + numUtf8BytesForCodePoint(text, i)
         IN  IF units >= numCodeUnits THEN bytes
             ELSE ScanToCodeUnits(text, numCodeUnits, i + CodePointLength(text, i),
                                  units, bytes)

numCodeUnitsToNumUtf8Bytes(text, numCodeUnits) ==
    IF numCodeUnits = 0 THEN 0
    ELSE ScanToCodeUnits(text, numCodeUnits, 1, 0, 0)

RECURSIVE ScanToUtf8Bytes(_, _, _, _, _)
ScanToUtf8Bytes(text, numUtf8Bytes, i, curUnits, curBytes) ==
    IF i > Len(text) THEN curUnits
    ELSE LET units == curUnits + CodePointLength(text, i)
             bytes == curBytes + numUtf8BytesForCodePoint(text, i)
         IN  IF bytes >= numUtf8Bytes THEN units
             ELSE ScanToUtf8Bytes(text, numUtf8Bytes, i + CodePointLength(text, i),
                                  units, bytes)

numUtf8BytesToNumCodeUnits(text, numUtf8Bytes) ==
    IF numUtf8Bytes = 0 THEN 0
    ELSE ScanToUtf8Bytes(text, numUtf8Bytes, 1, 0, 0)

\* Document.offsetAt / Document.positionAt: a Position is kept as the flat
\* code-unit offset it denotes, clamped to the text.
offsetAt(text, position) ==
    IF position > Len(text) THEN Len(text) ELSE position

positionAt(text, offset) ==
    IF offset > Len(text) THEN Len(text) ELSE offset

\* utils/language: the Language enum of a language id, UNSPECIFIED for an id
\* the table does not hold.
languageIdToEnum(languageId) ==
    IF languageId = "typescript" THEN "TYPESCRIPT" ELSE "UNSPECIFIED"

-----------------------------------------------------------------------------
(* Values *)

Undefined == [kind |-> "undefined"]

Ev(name, arg) == [ev |-> name, arg |-> arg]

\* The indices of the events called name, and the argument of the last one.
Indices(events, name) == {i \in DOMAIN events : events[i].ev = name}

LastArg(events, name, default) ==
    LET idx == Indices(events, name)
    IN  IF idx = {} THEN default
        ELSE events[CHOOSE i \in idx : \A j \in idx : j <= i].arg

\* The editor models: an ASCII and a 3-byte code point in a known language, a
\* surrogate pair in a language the language table does not know.
EditorModels ==
    { [text |-> <<97, 8364>>, languageId |-> "typescript"],
      [text |-> <<55357, 56832>>, languageId |-> "klingon"] }

\* The values the caller can give otherDocuments: n documents, numbered in order.
Docs(n) == [i \in 1 .. n |-> i]

\* The lengths the caller gives otherDocuments: none, the cap, more.
DocCounts == {0, MaxOtherDocs, MaxDocs}

ItemKinds == {"ok", "noCompletion", "noRange"}

\* The i-th item of a response (CompletionItem of language_server_pb).
WireItem(i, kind) ==
    [ completion |-> IF kind = "noCompletion" THEN Undefined
                     ELSE [kind |-> "completion", text |-> "text", completionId |-> i],
      range      |-> IF kind = "noRange" THEN Undefined
                     ELSE [kind |-> "range", startOffset |-> i - 1, endOffset |-> i + 1] ]

KindSeqs == UNION { [1 .. n -> ItemKinds] : n \in 0 .. MaxItems }

\* GetCompletionsResponse: completionItems is absent or a list of items.
Responses ==
    { [present |-> FALSE, completionItems |-> <<>>] } \cup
    { [present |-> TRUE,
       completionItems |-> [i \in 1 .. Len(kinds) |-> WireItem(i, kinds[i])]] :
      kinds \in KindSeqs }

NoRequest == [kind |-> "none"]
NoCall == [state |-> "none", request |-> NoRequest, outcome |-> Undefined]
NoToken == [cancelled |-> FALSE, listeners |-> {}]
NoProbe == [cursor |-> Undefined, mapped |-> Undefined]
NoAccepts == [invocations |-> 0, calls |-> << >>, logged |-> 0, thrown |-> 0]

\* Line 47.
EDITOR_API_KEY == "d49954eb-cfba-4992-980f-d8fb37f0e942"

\* Line 67: the session id the constructor makes from a fresh uuid.
NewSessionId(uuid) == "react-editor-" \o uuid

\* The constructions of a provider: without and with an api key.
Constructions ==
    { [sessionId |-> NewSessionId("uuid-1"), apiKey |-> Undefined],
      [sessionId |-> NewSessionId("uuid-2"),
       apiKey |-> [kind |-> "key", value |-> "user-key"]] }

\* Faulty variant of lines 79-89: a new session id for every request.
getMetadataFreshId(sid, key) ==
    [ ideName       |-> "web",
      extensionName |-> "@codeium/react-code-editor",
      apiKey        |-> IF key = Undefined THEN EDITOR_API_KEY ELSE key.value,
      sessionId     |-> NewSessionId("uuid-fresh") ]

\* Lines 79-89.
getMetadata(sid, key) ==
    [ ideName       |-> "web",
      extensionName |-> "@codeium/react-code-editor",
      apiKey        |-> IF key = Undefined THEN EDITOR_API_KEY ELSE key.value,
      sessionId     |-> sid ]

\* Lines 71-77.
getAuthHeader(sid, key) ==
    LET metadata == getMetadata(sid, key)
    IN  [Authorization |-> "Basic " \o metadata.apiKey \o "-" \o metadata.sessionId]

-----------------------------------------------------------------------------
(* provideInlineCompletions, lines 106-155: up to the await *)

\* Faulty variants of lines 111-155: the abort callback is registered only
\* after the await; the call is issued before anything is reported; nothing is
\* reported before the call.
InvokeEventsLateRegister ==
    << Ev("register", "cancellationCallback"),
       Ev("setStatus", PROCESSING),
       Ev("setMessage", GeneratingMessage),
       Ev("call", "getCompletions") >>

InvokeEventsCallFirst ==
    << Ev("register", "cancellationCallback"),
       Ev("register", "abort"),
       Ev("call", "getCompletions"),
       Ev("setStatus", PROCESSING),
       Ev("setMessage", GeneratingMessage) >>

InvokeEventsNoStatus ==
    << Ev("register", "cancellationCallback"),
       Ev("register", "abort"),
       Ev("call", "getCompletions") >>

InvokeEventsCallTwice ==
    << Ev("register", "cancellationCallback"),
       Ev("register", "abort"),
       Ev("setStatus", PROCESSING),
       Ev("setMessage", GeneratingMessage),
       Ev("call", "getCompletions"),
       Ev("call", "getCompletions") >>

InvokeEventsNoMessage ==
    << Ev("register", "cancellationCallback"),
       Ev("register", "abort"),
       Ev("setStatus", PROCESSING),
       Ev("call", "getCompletions") >>

\* Lines 111-155 in program order: what the code does before it suspends.
InvokeEvents ==
    << Ev("register", "cancellationCallback"),
       Ev("register", "abort"),
       Ev("setStatus", PROCESSING),
       Ev("setMessage", GeneratingMessage),
       Ev("call", "getCompletions") >>

\* Faulty variant of lines 229-232: the cursor offset is sent in code units.
getDocumentInfoInCodeUnits(document, position) ==
    [ text           |-> document.text,
      editorLanguage |-> document.languageId,
      language       |-> languageIdToEnum(document.languageId),
      cursorOffset   |-> offsetAt(document.text, position),
      lineEnding     |-> "\n" ]

\* Lines 225-248.
getDocumentInfo(document, position) ==
    [ text           |-> document.text,
      editorLanguage |-> document.languageId,
      language       |-> languageIdToEnum(document.languageId),
      cursorOffset   |-> numCodeUnitsToNumUtf8Bytes(document.text,
                             offsetAt(document.text, position)),
      lineEnding     |-> "\n" ]

\* Faulty variant of lines 128-134: no truncation.
IncludedOtherDocsNoCap(docs) == docs

\* Lines 128-134.
IncludedOtherDocs(docs) ==
    IF Len(docs) > MaxOtherDocs THEN SubSeq(docs, 1, MaxOtherDocs) ELSE docs

\* Lines 139-155: the request handed to client.getCompletions.
BuildRequest(document, position, docs, sid, key) ==
    [ kind           |-> "getCompletions",
      metadata       |-> getMetadata(sid, key),
      document       |-> getDocumentInfo(document, position),
      otherDocuments |-> IncludedOtherDocs(docs),
      headers        |-> getAuthHeader(sid, key) ]

Invoke(s, position) ==
    /\ pc[s] \in {"idle", "done"}
    /\ token' = [token EXCEPT ![s] =
                   [cancelled |-> FALSE,
                    listeners |-> {InvokeEvents[i].arg :
                                     i \in Indices(InvokeEvents, "register")}]]
    /\ signal' = [signal EXCEPT ![s] = FALSE]
    /\ status' = LastArg(InvokeEvents, "setStatus", status)
    /\ message' = LastArg(InvokeEvents, "setMessage", message)
    /\ call' = [call EXCEPT ![s] =
                  [state   |-> "pending",
                   request |-> BuildRequest(editorModel, position, otherDocuments,
                                            sessionId, apiKey),
                   outcome |-> Undefined]]
    /\ result' = [result EXCEPT ![s] = [kind |-> "pending"]]
    /\ trace' = [trace EXCEPT ![s] = InvokeEvents]
    /\ pc' = [pc EXCEPT ![s] = "awaiting"]
    /\ UNCHANGED <<otherDocuments, editorModel>>
    /\ UNCHANGED others

-----------------------------------------------------------------------------
(* The environment: the token, the transport, the embedder *)

\* The callbacks of lines 111-116 run: the second one aborts the controller.
FireCallbacks(tok, aborted) ==
    aborted \/ "abort" \in tok.listeners

\* Faulty variant of line 113: one controller for all invocations.
SharedController(s, t) == TRUE

\* Line 113: each invocation makes its own AbortController, so the callback
\* of invocation s aborts the controller of t only when t is s.
AbortsControllerOf(s, t) == s = t

\* The caller cancels the token of invocation s.
Cancel(s) ==
    /\ pc[s] # "idle"
    /\ ~token[s].cancelled
    /\ token' = [token EXCEPT ![s].cancelled = TRUE]
    /\ signal' = [t \in Sessions |->
                    IF AbortsControllerOf(s, t)
                    THEN FireCallbacks(token[s], signal[t])
                    ELSE signal[t]]
    /\ trace' = [trace EXCEPT ![s] = Append(@, Ev("cancel", "token"))]
    /\ UNCHANGED <<otherDocuments, status, message, editorModel, pc, call, result>>
    /\ UNCHANGED others

\* What the transport may settle a call with: an aborted call is rejected as
\* canceled; any other call resolves with a response or is rejected.
Outcomes(aborted) ==
    IF aborted THEN { [kind |-> "rejected", error |-> "canceled"] }
    ELSE { [kind |-> "rejected", error |-> e] : e \in {"canceled", "other"} } \cup
         { [kind |-> "resolved", response |-> r] : r \in Responses }

SettleEvent(outcome) ==
    Ev("settle", IF outcome.kind = "rejected" THEN outcome.error ELSE "resolved")

Settle(s, outcome) ==
    /\ call[s].state = "pending"
    /\ outcome \in Outcomes(signal[s])
    /\ call' = [call EXCEPT ![s] =
                  [state |-> outcome.kind, request |-> NoRequest, outcome |-> outcome]]
    /\ trace' = [trace EXCEPT ![s] = Append(@, SettleEvent(outcome))]
    /\ UNCHANGED <<otherDocuments, status, message, editorModel, pc, token, signal, result>>
    /\ UNCHANGED others

\* The embedder replaces the public field otherDocuments (line 58).
SetOtherDocuments(n) ==
    /\ otherDocuments # Docs(n)
    /\ otherDocuments' = Docs(n)
    /\ UNCHANGED <<status, message, editorModel, pc, token, signal, call, result, trace>>
    /\ UNCHANGED others

-----------------------------------------------------------------------------
(* provideInlineCompletions, lines 156-192: after the await *)

\* Faulty variants of line 158: every failure is an error; no failure is.
IsCanceledNever(error) == FALSE

IsCanceledAlways(error) == TRUE

\* Line 158: err instanceof ConnectError && err.code === Code.Canceled.
IsCanceled(error) == error = "canceled"

\* Lines 257-284.
createInlineCompletionItem(completionItem, text) ==
    IF completionItem.completion = Undefined \/ completionItem.range = Undefined
    THEN Undefined
    ELSE [ kind       |-> "inlineCompletion",
           insertText |-> completionItem.completion.text,
           range      |->
               [ start |-> positionAt(text,
                     numUtf8BytesToNumCodeUnits(text, completionItem.range.startOffset)),
                 end   |-> positionAt(text,
                     numUtf8BytesToNumCodeUnits(text, completionItem.range.endOffset)) ],
           command    |->
               [ id        |-> "codeium.acceptCompletion",
                 arguments |-> << completionItem.completion.completionId,
                                  completionItem.completion.text >> ] ]

\* Faulty variant of lines 176-180: mapping gives up at the first item that
\* does not map.
MapItemsUntilMalformed(completionItems, text) ==
    LET mapped == [i \in 1 .. Len(completionItems) |->
                      createInlineCompletionItem(completionItems[i], text)]
        bad == {i \in DOMAIN mapped : mapped[i] = Undefined}
    IN  IF bad = {} THEN mapped
        ELSE SubSeq(mapped, 1, (CHOOSE i \in bad : \A j \in bad : i <= j) - 1)

\* Lines 176-180: map every item, keep the ones that mapped.
MapItems(completionItems, text) ==
    SelectSeq([i \in 1 .. Len(completionItems) |->
                  createInlineCompletionItem(completionItems[i], text)],
              LAMBDA item : item # Undefined)

\* Faulty variant of lines 183-186: no singular wording.
GeneratedMessagePluralOnly(n) ==
    "Generated " \o ToString(n) \o " completions"

\* Lines 183-186.
GeneratedMessage(n) ==
    IF n = 1 THEN "Generated 1 completion"
    ELSE "Generated " \o ToString(n) \o " completions"

\* Line 166: !getCompletionsResponse.completionItems; an array, empty or not,
\* is truthy.
HasNoItems(response) == ~response.present

\* What the code after the await reports and returns, by the outcome of the
\* call: [report, status, message, value].
Quiet(value) ==
    [report |-> FALSE, status |-> "", message |-> "", value |-> value]

Report(st, msg, value) ==
    [report |-> TRUE, status |-> st, message |-> msg, value |-> value]

\* Lines 156-165.
OnRejected(error) ==
    IF IsCanceled(error) THEN Quiet(Undefined)
    ELSE Report(ERROR, ErrorMessage, Undefined)

\* Lines 166-191.
OnResolved(response, text) ==
    IF HasNoItems(response)
    THEN Report(SUCCESS, NoCompletionsMessage, Undefined)
    ELSE LET inlineCompletionItems == MapItems(response.completionItems, text)
         IN  Report(SUCCESS, GeneratedMessage(Len(inlineCompletionItems)),
                    [kind |-> "completions", items |-> inlineCompletionItems])

Continuation(outcome, text) ==
    IF outcome.kind = "rejected" THEN OnRejected(outcome.error)
    ELSE OnResolved(outcome.response, text)

\* The events of lines 156-192 in program order.
ResumeEvents(c) ==
    (IF c.report
     THEN << Ev("setStatus", c.status), Ev("setMessage", c.message) >>
     ELSE << >>) \o << Ev("return", c.value.kind) >>

\* Faulty variant of lines 138-156: only a fulfilled call is continued.
SettledFulfilledOnly(c) == c.state = "resolved"

\* Lines 138-156: the await inside the try block continues after the call is
\* fulfilled, and in the catch block after it is rejected; never before.
Settled(c) == c.state \in {"resolved", "rejected"}

Resume(s) ==
    /\ pc[s] = "awaiting"
    /\ Settled(call[s])
    /\ LET c == Continuation(call[s].outcome, editorModel.text)
       IN  /\ status' = LastArg(ResumeEvents(c), "setStatus", status)
           /\ message' = LastArg(ResumeEvents(c), "setMessage", message)
           /\ result' = [result EXCEPT ![s] = c.value]
           /\ trace' = [trace EXCEPT ![s] = @ \o ResumeEvents(c)]
    /\ call' = [call EXCEPT ![s] = NoCall]
    /\ pc' = [pc EXCEPT ![s] = "done"]
    /\ UNCHANGED <<otherDocuments, editorModel, token, signal>>
    /\ UNCHANGED others

-----------------------------------------------------------------------------
(* Specification *)

\* The state after construction, but for the editor model.
Constructed ==
    /\ otherDocuments = << >>
    /\ status = IDLE
    /\ message = ""
    /\ probe = NoProbe
    /\ accepts = NoAccepts
    /\ pc = [s \in Sessions |-> "idle"]
    /\ token = [s \in Sessions |-> NoToken]
    /\ signal = [s \in Sessions |-> FALSE]
    /\ call = [s \in Sessions |-> NoCall]
    /\ result = [s \in Sessions |-> [kind |-> "none"]]
    /\ trace = [s \in Sessions |-> << >>]

Init ==
    /\ editorModel \in EditorModels
    /\ sessionId = NewSessionId("uuid-1")
    /\ apiKey = Undefined
    /\ Constructed

Next ==
    \/ \E s \in Sessions : \E position \in 0 .. Len(editorModel.text) : Invoke(s, position)
    \/ \E s \in Sessions : Cancel(s)
    \/ \E s \in Sessions : \E outcome \in Outcomes(signal[s]) : Settle(s, outcome)
    \/ \E s \in Sessions : Resume(s)
    \/ \E n \in DocCounts : SetOtherDocuments(n)

Spec == Init /\ [][Next]_vars

\* The scheduling the code relies on: the transport settles every call (an
\* aborted one as canceled), and the event loop runs the continuation of a
\* settled call.
Fairness ==
    \A s \in Sessions :
        /\ WF_vars(\E outcome \in Outcomes(signal[s]) : Settle(s, outcome))
        /\ WF_vars(Resume(s))

\* One invocation slot, used again after each return, under that scheduling.
NextLive ==
    \/ \E s \in {1} : \E position \in 0 .. Len(editorModel.text) : Invoke(s, position)
    \/ \E s \in {1} : Cancel(s)
    \/ \E s \in {1} : \E outcome \in Outcomes(signal[s]) : Settle(s, outcome)
    \/ \E s \in {1} : Resume(s)
    \/ \E n \in DocCounts : SetOtherDocuments(n)

LiveSpec == Init /\ [][NextLive]_vars /\ Fairness

-----------------------------------------------------------------------------
(* The request builder and the response mapper on their own *)

CodeUnits == {97, 8364, 55357, 56832}

\* Every text of up to MaxLen code units: ASCII, 3-byte code points, surrogate
\* pairs and lone surrogates.
Texts == UNION { [1 .. n -> CodeUnits] : n \in 0 .. MaxLen }

\* getDocumentInfo (lines 225-248) applied to the editor model and a position.
ProbeCursor(position) ==
    /\ probe' = [probe EXCEPT !.cursor =
                   [ kind         |-> "cursor",
                     position     |-> position,
                     cursorOffset |->
                         getDocumentInfo(editorModel, position).cursorOffset ]]
    /\ UNCHANGED <<otherDocuments, status, message, editorModel, pc, token,
                   signal, call, result, trace, sessionId, apiKey, accepts>>

\* createInlineCompletionItem (lines 257-284) applied to an item with the
\* byte range the service chose.
ProbeItem(startOffset, endOffset) ==
    /\ probe' = [probe EXCEPT !.mapped =
                   [ kind        |-> "mapped",
                     startOffset |-> startOffset,
                     endOffset   |-> endOffset,
                     item        |-> createInlineCompletionItem(
                         [ completion |-> [kind |-> "completion", text |-> "text",
                                           completionId |-> 1],
                           range      |-> [kind |-> "range",
                                           startOffset |-> startOffset,
                                           endOffset |-> endOffset] ],
                         editorModel.text) ]]
    /\ UNCHANGED <<otherDocuments, status, message, editorModel, pc, token,
                   signal, call, result, trace, sessionId, apiKey, accepts>>

InitOffsets ==
    /\ editorModel \in [text : Texts, languageId : {"typescript"}]
    /\ sessionId = NewSessionId("uuid-1")
    /\ apiKey = Undefined
    /\ Constructed

NextOffsets ==
    \/ \E position \in 0 .. Len(editorModel.text) : ProbeCursor(position)
    \/ \E startOffset, endOffset \in 0 .. MaxOffset : ProbeItem(startOffset, endOffset)

OffsetSpec == InitOffsets /\ [][NextOffsets]_vars

-----------------------------------------------------------------------------
(* acceptedLastCompletion, lines 199-216, beside one invocation slot *)

\* Faulty variants of lines 212-214: the failure is reported like a failed
\* getCompletions; the call is sent again.
AcceptFailureEventsSurfaced ==
    << Ev("log", "Error: "),
       Ev("setStatus", ERROR),
       Ev("setMessage", ErrorMessage) >>

AcceptFailureEventsRetry ==
    << Ev("log", "Error: "), Ev("call", "acceptCompletion") >>

\* Lines 212-214: what the catch callback does.
AcceptFailureEvents == << Ev("log", "Error: ") >>

\* Lines 201-210: the call handed to client.acceptCompletion.
AcceptCall(completionId, sid, key) ==
    [ state   |-> "pending",
      request |-> [ kind         |-> "acceptCompletion",
                    metadata     |-> getMetadata(sid, key),
                    completionId |-> completionId,
                    headers      |-> getAuthHeader(sid, key) ] ]

\* The completion ids of the completions the provider has returned.
ShownIds ==
    UNION { {result[s].items[i].command.arguments[1] : i \in DOMAIN result[s].items} :
            s \in {t \in Sessions : result[t].kind = "completions"} }

\* Lines 199-216: up to the return; nothing is awaited.
AcceptedLastCompletion(completionId) ==
    /\ accepts.invocations < MaxAccepts
    /\ accepts' = [accepts EXCEPT
                     !.invocations = @ + 1,
                     !.calls = Append(@, AcceptCall(completionId, sessionId, apiKey))]
    /\ UNCHANGED <<otherDocuments, status, message, editorModel, pc, token,
                   signal, call, result, trace, probe, sessionId, apiKey>>

\* The transport resolves the i-th acceptCompletion call: line 211.
AcceptResolved(i) ==
    /\ i \in DOMAIN accepts.calls
    /\ accepts.calls[i].state = "pending"
    /\ accepts' = [accepts EXCEPT !.calls[i].state = "resolved"]
    /\ UNCHANGED <<otherDocuments, status, message, editorModel, pc, token,
                   signal, call, result, trace, probe, sessionId, apiKey>>

\* The transport rejects the i-th acceptCompletion call: lines 212-214 run.
AcceptRejected(i) ==
    /\ i \in DOMAIN accepts.calls
    /\ accepts.calls[i].state = "pending"
    /\ LET events == AcceptFailureEvents
           rejected == [accepts.calls EXCEPT ![i].state = "rejected"]
       IN  /\ accepts' = [accepts EXCEPT
                   !.calls = IF Indices(events, "call") = {} THEN rejected
                             ELSE Append(rejected,
                                    AcceptCall(accepts.calls[i].request.completionId,
                                               sessionId, apiKey)),
                   !.logged = @ + Cardinality(Indices(events, "log")),
                   !.thrown = @ + Cardinality(Indices(events, "throw"))]
           /\ status' = LastArg(events, "setStatus", status)
           /\ message' = LastArg(events, "setMessage", message)
    /\ UNCHANGED <<otherDocuments, editorModel, pc, token, signal, call, result,
                   trace, probe, sessionId, apiKey>>

InitProvider ==
    /\ editorModel \in EditorModels
    /\ \E c \in Constructions : sessionId = c.sessionId /\ apiKey = c.apiKey
    /\ Constructed

\* One invocation slot of provideInlineCompletions, and acceptedLastCompletion.
NextProvider ==
    \/ \E s \in {1} : \E position \in 0 .. Len(editorModel.text) : Invoke(s, position)
    \/ \E s \in {1} : Cancel(s)
    \/ \E s \in {1} : \E outcome \in Outcomes(signal[s]) : Settle(s, outcome)
    \/ \E s \in {1} : Resume(s)
    \/ \E completionId \in ShownIds : AcceptedLastCompletion(completionId)
    \/ \E i \in 1 .. MaxAccepts : AcceptResolved(i)
    \/ \E i \in 1 .. MaxAccepts : AcceptRejected(i)

ProviderSpec == InitProvider /\ [][NextProvider]_vars

-----------------------------------------------------------------------------
(* Vocabulary of the properties *)

Terminal == {SUCCESS, ERROR}

\* The steps by which invocation s starts and returns.
Invokes(s) == pc[s] # "awaiting" /\ pc'[s] = "awaiting"
Resumes(s) == pc[s] = "awaiting" /\ pc'[s] = "done"

Reported(tr, st) ==
    \E i \in DOMAIN tr : tr[i] = Ev("setStatus", st)

ReportedTerminal(tr) ==
    \E st \in Terminal : Reported(tr, st)

\* The token was cancelled while the call was still pending.
CancelledInFlight(tr) ==
    \E i \in Indices(tr, "cancel") : \A j \in Indices(tr, "settle") : i < j

\* The step of s reports a terminal status.
ReportsTerminal(s) ==
    /\ Resumes(s)
    /\ \E i \in DOMAIN trace'[s] :
          /\ i > Len(trace[s])
          /\ trace'[s][i].ev = "setStatus"
          /\ trace'[s][i].arg \in Terminal

-----------------------------------------------------------------------------
(* Properties *)

\* C1: an invocation whose token is cancelled after provideInlineCompletions
\* was invoked and before the getCompletions call settles never reports ERROR,
\* and when it has returned it has returned undefined.
C1_CancelledInFlightIsQuiet ==
    \A s \in Sessions :
        CancelledInFlight(trace[s]) =>
            /\ ~Reported(trace[s], ERROR)
            /\ pc[s] = "done" => result[s] = Undefined

C1_Witness ==
    \E s \in Sessions :
        /\ pc[s] = "done"
        /\ CancelledInFlight(trace[s])
        /\ result[s] = Undefined

\* C2 as stated: SUCCESS or ERROR is reported only when the last reported
\* status is PROCESSING, and PROCESSING only when the last reported status is
\* IDLE, SUCCESS or ERROR.
C2_StrictStatusCycle ==
    [][\A s \in Sessions :
          /\ ReportsTerminal(s) => status = PROCESSING
          /\ Invokes(s) => status \in {IDLE, SUCCESS, ERROR}]_vars

\* C2 amended: an invocation reports PROCESSING first and then at most one of
\* SUCCESS and ERROR.  SUCCESS or ERROR is reported when the last reported
\* status is PROCESSING, or is the SUCCESS or ERROR of another invocation that
\* returned in between.  PROCESSING is reported when the last reported status
\* is IDLE, SUCCESS or ERROR, or is the PROCESSING of an invocation that is
\* still in flight or that ended by cancellation.
C2_StatusCyclePerSession ==
    [][\A s \in Sessions :
          /\ ReportsTerminal(s) =>
                /\ Reported(trace[s], PROCESSING)
                /\ ~ReportedTerminal(trace[s])
                /\ \/ status = PROCESSING
                   \/ /\ status \in Terminal
                      /\ \E t \in Sessions \ {s} :
                            pc[t] = "done" /\ Reported(trace[t], status)
          /\ Invokes(s) =>
                \/ status \in {IDLE, SUCCESS, ERROR}
                \/ /\ status = PROCESSING
                   /\ \E t \in Sessions :
                         \/ pc[t] = "awaiting"
                         \/ pc[t] = "done" /\ ~ReportedTerminal(trace[t])]_vars

\* One invocation is in flight while the last reported status is the terminal
\* status of another that overlapped it.
C2_Witness ==
    \E s, t \in Sessions :
        /\ s # t
        /\ pc[s] = "awaiting"
        /\ pc[t] = "done"
        /\ status \in Terminal
        /\ Reported(trace[t], status)

\* C3 as stated: a call that resolves with an absent or an empty item
\* collection makes the invocation report SUCCESS with the 'no completions'
\* message and return undefined.
C3_EmptyOrAbsentIsNoResult ==
    [][\A s \in Sessions :
          (/\ Resumes(s)
           /\ call[s].outcome.kind = "resolved"
           /\ \/ ~call[s].outcome.response.present
              \/ call[s].outcome.response.completionItems = << >>)
          => /\ status' = SUCCESS
             /\ message' = NoCompletionsMessage
             /\ result'[s] = Undefined]_vars

\* A returned completion is well formed: text, a range inside the document
\* and the accept command.
WellFormed(item) ==
    /\ item.kind = "inlineCompletion"
    /\ item.insertText = "text"
    /\ item.range.start \in 0 .. Len(editorModel.text)
    /\ item.range.end \in 0 .. Len(editorModel.text)
    /\ item.command.id = "codeium.acceptCompletion"

C5_OtherFailureIsError ==
    \A s \in Sessions :
        (\E i \in DOMAIN trace[s] : trace[s][i] = Ev("settle", "other")) =>
            /\ ~Reported(trace[s], SUCCESS)
            /\ pc[s] = "done" =>
                  /\ result[s] = Undefined
                  /\ \E i \in DOMAIN trace[s] :
                        /\ trace[s][i] = Ev("setStatus", ERROR)
                        /\ i < Len(trace[s])
                        /\ trace[s][i + 1] =
                              Ev("setMessage", "Something went wrong; please try again.")

C5_Witness ==
    \E s \in Sessions :
        /\ pc[s] = "done"
        /\ \E i \in DOMAIN trace[s] : trace[s][i] = Ev("settle", "other")
        /\ status = ERROR

\* C6: in every invocation PROCESSING and the 'generating' message are
\* reported before the getCompletions call is issued, and SUCCESS or ERROR
\* only after the call has settled.
C6_ProcessingBeforeCallTerminalAfter ==
    \A s \in Sessions :
        /\ pc[s] # "idle" => Indices(trace[s], "call") # {}
        /\ \A c \in Indices(trace[s], "call") :
              /\ \E i \in 1 .. c - 1 : trace[s][i] = Ev("setStatus", PROCESSING)
              /\ \E i \in 1 .. c - 1 :
                    trace[s][i] = Ev("setMessage", "Generating completions...")
        /\ \A i \in DOMAIN trace[s] :
              (trace[s][i].ev = "setStatus" /\ trace[s][i].arg \in Terminal) =>
                  /\ \E c \in Indices(trace[s], "call") : c < i
                  /\ \E j \in Indices(trace[s], "settle") : j < i

C6_Witness ==
    \E s \in Sessions : pc[s] = "done" /\ ReportedTerminal(trace[s])

\* C7: the callback that aborts the signal is registered before the call is
\* issued and before the invocation suspends, so whenever the token of an
\* invocation has been cancelled its signal is aborted.
C7_AbortRegisteredBeforeCall ==
    \A s \in Sessions :
        pc[s] # "idle" =>
            /\ \E r \in DOMAIN trace[s] :
                  /\ trace[s][r] = Ev("register", "abort")
                  /\ \A c \in Indices(trace[s], "call") : r < c
            /\ "abort" \in token[s].listeners
            /\ token[s].cancelled => signal[s]

C7_Witness ==
    /\ \E s \in Sessions : pc[s] = "awaiting" /\ token[s].cancelled /\ signal[s]
    /\ \E s \in Sessions : pc[s] = "done" /\ token[s].cancelled /\ signal[s]

\* The items of a response that have both their completion and their range,
\* and the k-th of them.
Valid(item) == item.completion # Undefined /\ item.range # Undefined

Kept(items) == {i \in DOMAIN items : Valid(items[i])}

KthKept(items, k) ==
    CHOOSE i \in Kept(items) : Cardinality({j \in Kept(items) : j <= i}) = k

\* C8: when the call resolves with a list of items, the invocation returns the
\* items that have their completion and their range, each mapped, in their
\* original order, and reports SUCCESS: an item lacking either is dropped
\* alone.
C8_MalformedItemDroppedAlone ==
    [][\A s \in Sessions :
          (/\ Resumes(s)
           /\ call[s].outcome.kind = "resolved"
           /\ call[s].outcome.response.present)
          => LET items == call[s].outcome.response.completionItems
                 out == result'[s].items
             IN  /\ status' = SUCCESS
                 /\ result'[s].kind = "completions"
                 /\ Len(out) = Cardinality(Kept(items))
                 /\ \A k \in DOMAIN out :
                       /\ out[k].insertText = items[KthKept(items, k)].completion.text
                       /\ out[k].command.arguments[1] =
                             items[KthKept(items, k)].completion.completionId]_vars

\* The first item of a response was dropped and the second returned.
C8_Witness ==
    \E s \in Sessions :
        /\ pc[s] = "done"
        /\ result[s].kind = "completions"
        /\ Len(result[s].items) = 1
        /\ result[s].items[1].command.arguments[1] = 2

\* C9: when the call resolves with one item or more, the reported message
\* counts the items that survived mapping, which is the length of the returned
\* list, with 'Generated 1 completion' exactly when that number is 1 and
\* 'Generated N completions' otherwise.
C9_MessageCountsSurvivors ==
    [][\A s \in Sessions :
          (/\ Resumes(s)
           /\ call[s].outcome.kind = "resolved"
           /\ call[s].outcome.response.present
           /\ Len(call[s].outcome.response.completionItems) >= 1)
          => LET n == Cardinality(Kept(call[s].outcome.response.completionItems))
             IN  /\ status' = SUCCESS
                 /\ Len(result'[s].items) = n
                 /\ n = 1 => message' = "Generated 1 completion"
                 /\ n # 1 => message' = "Generated " \o ToString(n) \o " completions"]_vars

\* Singular wording for one survivor of two items, plural wording for none.
C9_Witness ==
    \E s, t \in Sessions :
        /\ pc[s] = "done" /\ result[s].kind = "completions"
        /\ Len(result[s].items) = 1
        /\ trace[s][Len(trace[s]) - 1] = Ev("setMessage", "Generated 1 completion")
        /\ pc[t] = "done" /\ result[t].kind = "completions"
        /\ Len(result[t].items) = 0
        /\ message = "Generated 0 completions"

\* C10: the request of every invocation carries the first min(10, length)
\* entries of otherDocuments, in order, whatever the length; never more than
\* 10, and the call is issued all the same.
C10_OtherDocumentsCapped ==
    [][\A s \in Sessions :
          Invokes(s) =>
              LET sent == call'[s].request.otherDocuments
                  n == IF Len(otherDocuments) < 10 THEN Len(otherDocuments) ELSE 10
              IN  /\ call'[s].state = "pending"
                  /\ Len(sent) = n
                  /\ Len(sent) <= 10
                  /\ \A i \in 1 .. n : sent[i] = otherDocuments[i]]_vars

C10_Witness ==
    \E s \in Sessions :
        /\ call[s].state = "pending"
        /\ Len(otherDocuments) > 10
        /\ call[s].request.otherDocuments = SubSeq(otherDocuments, 1, 10)

Cancels(s) == ~token[s].cancelled /\ token'[s].cancelled

\* C12: each invocation has its own abort signal: a signal is aborted only by
\* the token of its own invocation, and cancelling the token of one invocation
\* changes nothing of any other invocation nor of the reported status.
C12_CancelAbortsOwnCallOnly ==
    [][/\ \A t \in Sessions : signal'[t] => token'[t].cancelled
       /\ \A s \in Sessions :
             Cancels(s) =>
                 /\ signal'[s]
                 /\ status' = status /\ message' = message
                 /\ \A t \in Sessions \ {s} :
                       /\ signal'[t] = signal[t]
                       /\ call'[t] = call[t]
                       /\ pc'[t] = pc[t]
                       /\ result'[t] = result[t]
                       /\ trace'[t] = trace[t]]_vars

\* While one invocation is cancelled in flight, the other has returned
\* completions with its signal not aborted.
C12_Witness ==
    \E s, t \in Sessions :
        /\ s # t
        /\ pc[s] = "awaiting" /\ token[s].cancelled /\ signal[s]
        /\ pc[t] = "done" /\ ~signal[t]
        /\ Reported(trace[t], SUCCESS)
        /\ result[t].kind = "completions"

\* The transport rejects a pending acceptCompletion call in this step.
AcceptFails ==
    \E i \in DOMAIN accepts.calls :
        /\ accepts.calls[i].state = "pending"
        /\ i \in DOMAIN accepts'.calls
        /\ accepts'.calls[i].state = "rejected"

\* C13: every invocation of acceptedLastCompletion issues exactly one
\* acceptCompletion call and none is ever sent again; when the call fails,
\* the failure is logged and nothing else happens: the status and the message
\* stay as they were, no further call is issued and nothing is thrown.
C13_AcceptIsOneSilentCall ==
    [][ /\ Len(accepts'.calls) = accepts'.invocations
        /\ accepts'.thrown = 0
        /\ AcceptFails =>
              /\ status' = status
              /\ message' = message
              /\ Len(accepts'.calls) = Len(accepts.calls)
              /\ accepts'.invocations = accepts.invocations
              /\ accepts'.logged = accepts.logged + 1
              /\ UNCHANGED <<pc, call, result, trace>> ]_vars

\* An acceptCompletion call has failed while the status was SUCCESS, and a
\* later acceptance has issued its own call.
C13_Witness ==
    /\ status = SUCCESS
    /\ accepts.invocations = MaxAccepts
    /\ accepts.logged = 1
    /\ \E i \in DOMAIN accepts.calls : accepts.calls[i].state = "rejected"

\* The requests the provider has sent: the getCompletions calls in flight and
\* every acceptCompletion call.
SentRequests ==
    {call[s].request : s \in {t \in Sessions : call[t].request # NoRequest}}
        \cup {accepts.calls[i].request : i \in DOMAIN accepts.calls}

\* C14: the session id is the one the constructor made, and every request of
\* the provider carries that id in its metadata and in its Authorization
\* header, after the api key in use.
C14_SessionIdIsStable ==
    /\ \E c \in Constructions : sessionId = c.sessionId /\ apiKey = c.apiKey
    /\ \A r \in SentRequests :
          /\ r.metadata.sessionId = sessionId
          /\ r.metadata.apiKey =
                (IF apiKey = Undefined THEN EDITOR_API_KEY ELSE apiKey.value)
          /\ r.headers.Authorization =
                "Basic " \o r.metadata.apiKey \o "-" \o sessionId

\* A getCompletions call is in flight beside an acceptCompletion call of an
\* earlier invocation, in a provider constructed with an api key.
C14_Witness ==
    /\ apiKey # Undefined
    /\ \E r \in SentRequests : r.kind = "getCompletions"
    /\ \E r \in SentRequests : r.kind = "acceptCompletion"

\* The code-unit offset p of text does not fall between the two units of a
\* surrogate pair.
IsBoundary(text, p) ==
    \/ p = 0
    \/ p = Len(text)
    \/ ~(IsHighSurrogate(text[p]) /\ IsLowSurrogate(text[p + 1]))

\* C15: for the text of the editor and every offset of it on a code-point
\* boundary, translating the offset to UTF-8 bytes and back gives the offset;
\* so a range offset equal to the cursor offset sent for a boundary position
\* maps back to that position.
C15_RoundTrip ==
    LET text == editorModel.text
    IN  /\ \A p \in 0 .. Len(text) :
              IsBoundary(text, p) =>
                  numUtf8BytesToNumCodeUnits(text,
                      numCodeUnitsToNumUtf8Bytes(text, p)) = p
        /\ (/\ probe.cursor # Undefined
            /\ probe.mapped # Undefined
            /\ IsBoundary(text, probe.cursor.position)) =>
              /\ probe.mapped.startOffset = probe.cursor.cursorOffset =>
                    probe.mapped.item.range.start = probe.cursor.position
              /\ probe.mapped.endOffset = probe.cursor.cursorOffset =>
                    probe.mapped.item.range.end = probe.cursor.position

\* The cursor after a surrogate pair was sent as a byte offset, and a range
\* starting at that byte offset was mapped back.
C15_Witness ==
    /\ probe.cursor # Undefined
    /\ probe.mapped # Undefined
    /\ probe.cursor.position > 1
    /\ IsLowSurrogate(editorModel.text[probe.cursor.position])
    /\ IsHighSurrogate(editorModel.text[probe.cursor.position - 1])
    /\ IsBoundary(editorModel.text, probe.cursor.position)
    /\ probe.cursor.cursorOffset > probe.cursor.position
    /\ probe.mapped.startOffset = probe.cursor.cursorOffset
    /\ probe.mapped.item.range.start = probe.cursor.position

\* The byte offset b is within the UTF-8 encoding of text and is not the byte
\* offset of any code-point boundary.
InsideCodePoint(text, b) ==
    /\ b < numCodeUnitsToNumUtf8Bytes(text, Len(text))
    /\ \A p \in 0 .. Len(text) :
          IsBoundary(text, p) => numCodeUnitsToNumUtf8Bytes(text, p) # b

\* C16 as stated: a range offset that lands inside a code point is mapped to a
\* code-point boundary at or before it, never into a surrogate pair.
C16_RoundsToBoundaryAtOrBefore ==
    probe.mapped # Undefined =>
        LET text == editorModel.text
            b == probe.mapped.startOffset
            u == probe.mapped.item.range.start
        IN  InsideCodePoint(text, b) =>
                /\ IsBoundary(text, u)
                /\ numCodeUnitsToNumUtf8Bytes(text, u) <= b

\* C17: an invocation whose call was rejected as canceled calls neither
\* setStatus nor setMessage from then on: its return leaves the last reported
\* status and message as they are, its events after the rejection are the
\* return alone, and the reported status is never a value other than IDLE,
\* PROCESSING, SUCCESS and ERROR.
C17_CanceledRejectionReportsNothing ==
    [][\A s \in Sessions :
          /\ status' \in {IDLE, PROCESSING, SUCCESS, ERROR}
          /\ (/\ Resumes(s)
              /\ call[s].outcome.kind = "rejected"
              /\ call[s].outcome.error = "canceled")
             => /\ status' = status
                /\ message' = message
                /\ result'[s] = Undefined
                /\ trace'[s] = Append(trace[s], Ev("return", "undefined"))
          /\ \A i \in Indices(trace'[s], "settle") :
                trace'[s][i].arg = "canceled" =>
                    \A j \in DOMAIN trace'[s] :
                        j > i => trace'[s][j].ev \notin {"setStatus", "setMessage"}]_vars

\* An invocation rejected as canceled has returned while the last reported
\* status is still its own PROCESSING.
C17_Witness ==
    \E s \in Sessions :
        /\ pc[s] = "done"
        /\ \E i \in Indices(trace[s], "settle") : trace[s][i].arg = "canceled"
        /\ result[s] = Undefined
        /\ status = PROCESSING
        /\ message = GeneratingMessage
        /\ \A t \in Sessions \ {s} : pc[t] = "idle"

\* The terminal statuses the events tr report, by their places in tr.
TerminalReports(tr) ==
    {i \in Indices(tr, "setStatus") : tr[i].arg \in Terminal}

\* C18: an invocation issues exactly one getCompletions call, whether the
\* call fails, is cancelled or succeeds, and reports at most one terminal
\* status.  A cancellation that arrives when the call has already resolved or
\* the invocation has already returned changes neither the outcome of the
\* call, the returned result nor the reported status and message: the
\* invocation returns the completions of the response under SUCCESS.
C18_OneCallOneTerminalReport ==
    [][\A s \in Sessions :
          /\ pc'[s] # "idle" =>
                /\ Cardinality(Indices(trace'[s], "call")) = 1
                /\ Cardinality(TerminalReports(trace'[s])) <= 1
          /\ (Cancels(s) /\ (call[s].state = "resolved" \/ pc[s] = "done"))
             => /\ call' = call
                /\ result' = result
                /\ status' = status
                /\ message' = message
                /\ pc' = pc
          /\ (Resumes(s) /\ call[s].outcome.kind = "resolved")
             => /\ status' = SUCCESS
                /\ call[s].outcome.response.present =>
                      /\ result'[s].kind = "completions"
                      /\ Len(result'[s].items) <=
                            Len(call[s].outcome.response.completionItems)]_vars

\* The token was cancelled after the call had resolved and before the
\* invocation returned, and the invocation has returned completions under
\* SUCCESS.
C18_Witness ==
    \E s \in Sessions :
        /\ pc[s] = "done"
        /\ \E i \in Indices(trace[s], "settle") : \E j \in Indices(trace[s], "cancel") :
              /\ trace[s][i].arg = "resolved"
              /\ i < j
              /\ \E r \in Indices(trace[s], "return") : j < r
        /\ result[s] # Undefined
        /\ result[s].kind = "completions"
        /\ Len(result[s].items) > 0
        /\ Reported(trace[s], SUCCESS)
        /\ status = SUCCESS

\* The messages the code reports together with a status.
MessagesOf(st) ==
    IF st = PROCESSING THEN {GeneratingMessage}
    ELSE IF st = ERROR THEN {ErrorMessage}
    ELSE IF st = SUCCESS
         THEN {NoCompletionsMessage} \cup {GeneratedMessage(n) : n \in 0 .. MaxItems}
    ELSE {""}

\* C19: whenever the program is suspended or has returned, under any
\* interleaving of invocations, the last reported message is a message of the
\* last reported status, and in the events of every invocation each setStatus
\* is followed at once by the setMessage of that status.
C19_StatusAndMessagePaired ==
    /\ message \in MessagesOf(status)
    /\ \A s \in Sessions : \A i \in Indices(trace[s], "setStatus") :
          /\ i + 1 \in DOMAIN trace[s]
          /\ trace[s][i + 1].ev = "setMessage"
          /\ trace[s][i + 1].arg \in MessagesOf(trace[s][i].arg)

\* An invocation that started later is still in flight while the last
\* reported pair is the ERROR of an invocation that overlapped it.
C19_Witness ==
    \E s, t \in Sessions :
        /\ s # t
        /\ pc[s] = "awaiting"
        /\ pc[t] = "done"
        /\ Reported(trace[t], ERROR)
        /\ status = ERROR
        /\ message = ErrorMessage

\* C20: with a transport that settles every call, every invocation
\* eventually returns.  The invocation has no timeout of its own: it returns
\* only in a step that finds its call settled, and while its call is pending
\* it stays suspended, has no result and reports nothing after PROCESSING.
C20_ReturnsOnceTheCallSettles ==
    /\ \A s \in Sessions : (pc[s] = "awaiting") ~> (pc[s] = "done")
    /\ [][\A s \in Sessions :
             /\ Resumes(s) => call[s].state \in {"resolved", "rejected"}
             /\ call'[s].state = "pending" =>
                   /\ pc'[s] = "awaiting"
                   /\ result'[s] = [kind |-> "pending"]
                   /\ ~ReportedTerminal(trace'[s])]_vars

\* An invocation whose token was never cancelled has returned after the
\* transport rejected its call.
C20_Witness ==
    \E s \in Sessions :
        /\ pc[s] = "done"
        /\ ~token[s].cancelled
        /\ \E i \in Indices(trace[s], "settle") : trace[s][i].arg = "other"
        /\ \E i \in Indices(trace[s], "return") :
              \A j \in Indices(trace[s], "settle") : j < i
        /\ status = ERROR

====
